---------------------------- MODULE Spec2Model ----------------------------
(***************************************************************************)
(* Model of colabbtr/morphology.py: the grayscale morphology engine        *)
(* (idilation, ierosion over torch.roll), tip centering                    *)
(* (translate_tip_mean), the blind-tip-reconstruction loop                 *)
(* (differentiable_btr) and the two surface renderers (surfing,            *)
(* surfing_old).                                                           *)
(*                                                                         *)
(* Heights are integers (exact arithmetic): a tensor of shape (nx, ny) is  *)
(* the record [nx, ny, at] with at a function on (0..nx-1) \X (0..ny-1).   *)
(***************************************************************************)
EXTENDS Integers, Sequences, FiniteSets

VARIABLES pc,        \* position of the running call
          image,     \* the surface / image argument
          tip,       \* the tip argument (the optimizer's parameter in the loop)
          r,         \* the tensor the call has produced last
          prev,      \* the tensor the call before it produced (in the loop: the tip
                     \* as optimizer.step() left it, until the loss is re-evaluated)
          images,    \* differentiable_btr: the stack of frames
          nepoch,    \* differentiable_btr: the number of epochs asked for
          epoch,     \* differentiable_btr: epochs completed
          iframe,    \* differentiable_btr: frames completed in the running epoch
          loss,      \* differentiable_btr: the loss computed last
          loss_tmp,  \* differentiable_btr: the running sum of the epoch
          loss_train,\* differentiable_btr: the loss trace
          nstep,     \* optimizer steps taken so far
          nproj,     \* projections made so far
          visited,   \* the frames re-evaluated in the running epoch, in order
          post_tmp,  \* sum over the running epoch of the losses seen right after projection
          post_train,\* post_tmp of every completed epoch
          atoms,     \* surfing: the atoms, each [x, y, z, radius]
          config     \* surfing: the stage configuration

call == <<pc, image, tip, r, prev>>

btr == <<images, nepoch, epoch, iframe, loss, loss_tmp, loss_train,
         nstep, nproj, visited, post_tmp, post_train>>

stage == <<atoms, config>>

vars == <<call, btr, stage>>

(***************************** bounds **************************************)
MaxImgCells == 3     \* images of the morphology calls have at most this many cells
MaxTipCells == 3     \* tips of the morphology calls have at most this many cells
MaxVal == 1          \* image heights are 0..MaxVal
TipDepth == 1        \* tip heights of the morphology calls are -TipDepth..0
MaxCenterCells == 5  \* tips handed to translate_tip_mean have at most this many cells
CenterDepth == 2     \* and heights -CenterDepth..0
MaxEpoch == 2        \* nepoch is 0..MaxEpoch
MaxFrames == 2       \* a stack holds 0..MaxFrames frames
MaxAtoms == 2        \* an atom set holds 0..MaxAtoms atoms
MaxStage == 3        \* max_x and max_y are 1..MaxStage, atoms lie in 0..MaxStage
MaxRadius == 2       \* radii are 1..MaxRadius

(***************************** tensors *************************************)
Idx(nx, ny) == (0 .. nx - 1) \X (0 .. ny - 1)

Tensor(nx, ny, f) == [nx |-> nx, ny |-> ny, at |-> f]

Cells(t) == Idx(t.nx, t.ny)

\* tensor.size() of every tensor of at least one and at most maxCells cells
Shapes(maxCells) == {s \in (1 .. maxCells) \X (1 .. maxCells) : s[1] * s[2] <= maxCells}

Tensors(shapes, vals) ==
  UNION {{Tensor(s[1], s[2], f) : f \in [Idx(s[1], s[2]) -> vals]} : s \in shapes}

SetMax(S) == CHOOSE m \in S : \A x \in S : x <= m

SetMin(S) == CHOOSE m \in S : \A x \in S : m <= x

\* Python's round() of the non-negative rational num / den: to nearest, ties to even.
Round(num, den) ==
  LET q == num \div den
      rem == num % den
  IN  IF 2 * rem < den THEN q
      ELSE IF 2 * rem > den THEN q + 1
      ELSE IF q % 2 = 0 THEN q ELSE q + 1

\* round((n - 1) / 2): the center index along an axis of n cells.
Center(n) == Round(n - 1, 2)

compute_xc_yc(t) == <<Center(t.nx), Center(t.ny)>>

\* Cell c of torch.roll(t, shifts=(sx, sy), dims=(0, 1)):
\* rolled[i, j] = t[(i - sx) mod nx, (j - sy) mod ny].
rollAt(t, sx, sy, c) == t.at[<<(c[1] - sx) % t.nx, (c[2] - sy) % t.ny>>]

roll(t, sx, sy) == Tensor(t.nx, t.ny, [c \in Cells(t) |-> rollAt(t, sx, sy, c)])

\* The offsets (px, py) the two loops of idilation and ierosion run over:
\* range(-xc, tip_xsiz - xc) x range(-yc, tip_ysiz - yc).
Offsets(t) ==
  LET cc == compute_xc_yc(t)
  IN  ((0 - cc[1]) .. (t.nx - cc[1] - 1)) \X ((0 - cc[2]) .. (t.ny - cc[2] - 1))

\* The loop body of idilation with the roll reversed, shifts=(px, py).
DilationTermFlipped(surface, t, cc, p, c) ==
  rollAt(surface, p[1], p[2], c) + t.at[<<cc[1] + p[1], cc[2] + p[2]>>]

\* Cell c of one pass of the loop body of idilation:
\* temp = roll(surface, (-px, -py)) + tip[xc + px, yc + py], cc being (xc, yc).
DilationTerm(surface, t, cc, p, c) ==
  rollAt(surface, 0 - p[1], 0 - p[2], c) + t.at[<<cc[1] + p[1], cc[2] + p[2]>>]

\* The loop body of ierosion with the roll reversed, shifts=(-px, -py).
ErosionTermFlipped(img, t, cc, p, c) ==
  rollAt(img, 0 - p[1], 0 - p[2], c) - t.at[<<cc[1] + p[1], cc[2] + p[2]>>]

\* The loop body of ierosion with the tip value added, not subtracted.
ErosionTermAdded(img, t, cc, p, c) ==
  rollAt(img, p[1], p[2], c) + t.at[<<cc[1] + p[1], cc[2] + p[2]>>]

\* Cell c of one pass of the loop body of ierosion:
\* temp = roll(image, (px, py)) - tip[xc + px, yc + py], cc being (xc, yc).
ErosionTerm(img, t, cc, p, c) ==
  rollAt(img, p[1], p[2], c) - t.at[<<cc[1] + p[1], cc[2] + p[2]>>]

\* idilation with torch.minimum in place of torch.maximum.
idilationMin(surface, t) ==
  LET cc == compute_xc_yc(t)
      offs == Offsets(t)
  IN  Tensor(surface.nx, surface.ny,
             [c \in Cells(surface) |->
                SetMin({DilationTerm(surface, t, cc, p, c) : p \in offs})])

\* r = full_like(surface, -inf), then r = maximum(r, temp) for every offset: the
\* offsets are never empty (every axis of a tip has a cell), so no -inf is left.
idilation(surface, t) ==
  LET cc == compute_xc_yc(t)
      offs == Offsets(t)
  IN  Tensor(surface.nx, surface.ny,
             [c \in Cells(surface) |->
                SetMax({DilationTerm(surface, t, cc, p, c) : p \in offs})])

\* r = full_like(image, +inf), then r = minimum(r, temp) for every offset.
ierosion(img, t) ==
  LET cc == compute_xc_yc(t)
      offs == Offsets(t)
  IN  Tensor(img.nx, img.ny,
             [c \in Cells(img) |->
                SetMin({ErosionTerm(img, t, cc, p, c) : p \in offs})])

Neg(t) == Tensor(t.nx, t.ny, [c \in Cells(t) |-> 0 - t.at[c]])

\* The tip flipped along both axes.
reflect(t) ==
  Tensor(t.nx, t.ny, [c \in Cells(t) |-> t.at[<<t.nx - 1 - c[1], t.ny - 1 - c[2]>>]])

(*************************** tip centering *********************************)
RECURSIVE SumOver(_, _)
\* torch.sum of f over the cells S
SumOver(f, S) ==
  IF S = {} THEN 0
  ELSE LET c == CHOOSE x \in S : TRUE IN f[c] + SumOver(f, S \ {c})

Larger(a, b) == IF a >= b THEN a ELSE b

Smaller(a, b) == IF a <= b THEN a ELSE b

\* p_min = torch.min(P)
MinOf(P) == SetMin({P.at[c] : c \in Cells(P)})

\* weight = P - p_min; weight[weight < cutoff] = 0; all of it 1 when every weight
\* is below 10**(-10). Heights are integers here: a weight below either threshold
\* is a weight of 0.
Weight(P) ==
  LET p_min == MinOf(P)
      w == [c \in Cells(P) |-> IF P.at[c] - p_min < 1 THEN 0 ELSE P.at[c] - p_min]
  IN  IF \A c \in Cells(P) : w[c] < 1 THEN [c \in Cells(P) |-> 1] ELSE w

\* com = sum(index * weight / sum(weight)) along the axis, as numerator and
\* denominator of the exact quotient.
ComNum(P, axis) ==
  LET weight == Weight(P)
  IN  SumOver([c \in Cells(P) |-> c[axis] * weight[c]], Cells(P))

ComDen(P) == SumOver(Weight(P), Cells(P))

\* (id_x, id_y) = (round(com_x), round(com_y))
RoundedCentroid(P) ==
  LET total == ComDen(P)
  IN  <<Round(ComNum(P, 1), total), Round(ComNum(P, 2), total)>>

\* P_new filled with 0, as torch.zeros_like(P) would.
FillZero(P) == 0

\* the value P_new is filled with before the window is copied: p_min

FillValue(P) == MinOf(P)

\* P_new = full_like(P, p_min);
\* P_new[xc+pxmin : xc+pxmax, yc+pymin : yc+pymax] = P[id_x+pxmin : id_x+pxmax, id_y+pymin : id_y+pymax]
translate_tip_mean(P) ==
  LET cc == compute_xc_yc(P)
      id == RoundedCentroid(P)
      pxmin == Larger(0 - cc[1], 0 - id[1])
      pymin == Larger(0 - cc[2], 0 - id[2])
      pxmax == Smaller(P.nx - cc[1], P.nx - id[1])
      pymax == Smaller(P.ny - cc[2], P.ny - id[2])
      fill == FillValue(P)
  IN  Tensor(P.nx, P.ny,
             [c \in Cells(P) |->
                IF /\ cc[1] + pxmin <= c[1] /\ c[1] < cc[1] + pxmax
                   /\ cc[2] + pymin <= c[2] /\ c[2] < cc[2] + pymax
                THEN P.at[<<c[1] - cc[1] + id[1], c[2] - cc[2] + id[2]>>]
                ELSE fill])

(************************ the morphology calls *****************************)
Images == Tensors(Shapes(MaxImgCells), 0 .. MaxVal)

Tips == Tensors(Shapes(MaxTipCells), (0 - TipDepth) .. 0)

\* No atoms and no stage while the engine or the loop is modelled.
NoStage ==
  /\ atoms = <<>>
  /\ config = [min_x |-> 0, max_x |-> 0, resolution_x |-> 0,
               min_y |-> 0, max_y |-> 0, resolution_y |-> 0]

\* The loop's variables while a single call of the engine is modelled.
NoLoop ==
  /\ NoStage
  /\ images = <<>>
  /\ nepoch = 0
  /\ epoch = 0
  /\ iframe = 0
  /\ loss = 0
  /\ loss_tmp = 0
  /\ loss_train = <<>>
  /\ nstep = 0
  /\ nproj = 0
  /\ visited = <<>>
  /\ post_tmp = 0
  /\ post_train = <<>>

InitMorph ==
  /\ pc = "start"
  /\ image \in Images
  /\ tip \in Tips
  /\ r = image
  /\ prev = image
  /\ NoLoop

\* r = idilation(image, tip): no check of the shapes precedes the loops
Dilate ==
  /\ pc = "start"
  /\ r' = idilation(image, tip)
  /\ pc' = "dilated"
  /\ UNCHANGED <<image, tip, prev, btr, stage>>

\* r = ierosion(image, tip): no check of the shapes precedes the loops
Erode ==
  /\ pc = "start"
  /\ r' = ierosion(image, tip)
  /\ pc' = "eroded"
  /\ UNCHANGED <<image, tip, prev, btr, stage>>

\* r = idilation(ierosion(image, tip), tip), the erosion being in r
DilateEroded ==
  /\ pc = "eroded"
  /\ r' = idilation(r, tip)
  /\ pc' = "opened"
  /\ UNCHANGED <<image, tip, prev, btr, stage>>

\* the reconstruction applied to the reconstructed image in r
Reopen ==
  /\ pc = "opened"
  /\ prev' = r
  /\ r' = idilation(ierosion(r, tip), tip)
  /\ pc' = "reopened"
  /\ UNCHANGED <<image, tip, btr, stage>>

\* r = -idilation(-image, reflect(tip)), the erosion of image kept in prev
DilateDual ==
  /\ pc = "eroded"
  /\ prev' = r
  /\ r' = Neg(idilation(Neg(image), reflect(tip)))
  /\ pc' = "dual"
  /\ UNCHANGED <<image, tip, btr, stage>>

NextMorph == Dilate \/ Erode \/ DilateEroded \/ Reopen \/ DilateDual

SpecMorph == InitMorph /\ [][NextMorph]_vars

(************************* the centering calls *****************************)
CenterTips == Tensors(Shapes(MaxCenterCells), (0 - CenterDepth) .. 0)

InitCenter ==
  /\ pc = "start"
  /\ tip \in CenterTips
  /\ image = tip
  /\ r = tip
  /\ prev = tip
  /\ NoLoop

\* r = translate_tip_mean(tip)
Translate ==
  /\ pc = "start"
  /\ r' = translate_tip_mean(tip)
  /\ pc' = "centered"
  /\ UNCHANGED <<image, tip, prev, btr, stage>>

\* r = translate_tip_mean(r), the first result kept in prev
TranslateAgain ==
  /\ pc = "centered"
  /\ prev' = r
  /\ r' = translate_tip_mean(r)
  /\ pc' = "recentered"
  /\ UNCHANGED <<image, tip, btr, stage>>

NextCenter == Translate \/ TranslateAgain

SpecCenter == InitCenter /\ [][NextCenter]_vars

(************************** differentiable_btr *****************************)
\* torch.zeros(tip_size)
Zeros(size) == Tensor(size[1], size[2], [c \in Idx(size[1], size[2]) |-> 0])

\* the tip sizes the loop is run with
TipSizes == {<<1, 1>>, <<1, 2>>}

\* the frames: every 1x2 image of a flat stage (0) with bumps of height 1
Frames == Tensors({<<1, 2>>}, {0, 1})

Stacks == UNION {[1 .. n -> Frames] : n \in 0 .. MaxFrames}

\* what optimizer.step() may leave in a tip cell
StepVals == (0 - TipDepth) .. 1

\* The tip left as it is, no clamp.
clampKept(t) == t

\* torch.clamp(tip, max=0.0)

clamp(t) == Tensor(t.nx, t.ny, [c \in Cells(t) |-> Smaller(t.at[c], 0)])

\* torch.mean((image_reconstructed - image)**2), times the number of cells of a
\* frame: idilation(ierosion(image, tip), tip) against image.
Loss(img, t) ==
  LET rec == idilation(ierosion(img, t), t)
  IN  SumOver([c \in Cells(img) |-> (rec.at[c] - img.at[c]) * (rec.at[c] - img.at[c])],
              Cells(img))

InitBTR ==
  /\ pc = "epoch"
  /\ images \in Stacks
  /\ nepoch \in 0 .. MaxEpoch
  /\ tip \in {Zeros(size) : size \in TipSizes}
  /\ image = tip
  /\ r = tip
  /\ prev = tip
  /\ epoch = 0
  /\ iframe = 0
  /\ loss = 0
  /\ loss_tmp = 0
  /\ loss_train = <<>>
  /\ nstep = 0
  /\ nproj = 0
  /\ visited = <<>>
  /\ post_tmp = 0
  /\ post_train = <<>>
  /\ NoStage

\* for epoch in range(nepoch): loss_tmp = 0.0
BeginEpoch ==
  /\ pc = "epoch"
  /\ epoch < nepoch
  /\ loss_tmp' = 0
  /\ iframe' = 0
  /\ visited' = <<>>
  /\ post_tmp' = 0
  /\ pc' = "frame"
  /\ UNCHANGED <<image, tip, r, prev, images, nepoch, epoch, loss, loss_train,
                 nstep, nproj, post_train, stage>>

\* for iframe in range(images.shape[0]): zero_grad, the forward pass, backward
Forward ==
  /\ pc = "frame"
  /\ iframe < Len(images)
  /\ loss' = Loss(images[iframe + 1], tip)
  /\ pc' = "step"
  /\ UNCHANGED <<image, tip, r, prev, images, nepoch, epoch, iframe, loss_tmp,
                 loss_train, nstep, nproj, visited, post_tmp, post_train, stage>>

\* optimizer.step(): AdamW writes the tip; any value may come out of it
OptimizerStep ==
  /\ pc = "step"
  /\ \E f \in [Cells(tip) -> StepVals] : tip' = Tensor(tip.nx, tip.ny, f)
  /\ nstep' = nstep + 1
  /\ pc' = "project"
  /\ UNCHANGED <<image, r, prev, images, nepoch, epoch, iframe, loss, loss_tmp,
                 loss_train, nproj, visited, post_tmp, post_train, stage>>

\* tip.data = clamp(tip, max=0.0); tip.data = translate_tip_mean(tip)
Project ==
  /\ pc = "project"
  /\ prev' = tip
  /\ tip' = translate_tip_mean(clamp(tip))
  /\ nproj' = nproj + 1
  /\ post_tmp' = post_tmp + Loss(images[iframe + 1], tip')
  /\ pc' = "reeval"
  /\ UNCHANGED <<image, r, images, nepoch, epoch, iframe, loss, loss_tmp,
                 loss_train, nstep, visited, post_train, stage>>

\* the loss of the first forward pass, taken before optimizer.step()
StaleLoss == loss

\* the loss the second forward pass computes and adds to loss_tmp

ReevaluatedLoss == Loss(images[iframe + 1], tip)

\* the second forward pass; loss_tmp += loss.item()
Reevaluate ==
  /\ pc = "reeval"
  /\ loss' = ReevaluatedLoss
  /\ loss_tmp' = loss_tmp + loss'
  /\ visited' = Append(visited, iframe)
  /\ iframe' = iframe + 1
  /\ prev' = image
  /\ pc' = "frame"
  /\ UNCHANGED <<image, tip, r, images, nepoch, epoch, loss_train,
                 nstep, nproj, post_tmp, post_train, stage>>

\* the frames are exhausted: loss_train.append(loss_tmp)
EndEpoch ==
  /\ pc = "frame"
  /\ iframe >= Len(images)
  /\ loss_train' = Append(loss_train, loss_tmp)
  /\ post_train' = Append(post_train, post_tmp)
  /\ epoch' = epoch + 1
  /\ pc' = "epoch"
  /\ UNCHANGED <<image, tip, r, prev, images, nepoch, iframe, loss, loss_tmp,
                 nstep, nproj, visited, post_tmp, stage>>

\* return tip.detach(), loss_train
Return ==
  /\ pc = "epoch"
  /\ epoch >= nepoch
  /\ r' = tip
  /\ pc' = "done"
  /\ UNCHANGED <<image, tip, prev, btr, stage>>

NextBTR ==
  BeginEpoch \/ Forward \/ OptimizerStep \/ Project \/ Reevaluate \/ EndEpoch \/ Return

SpecBTR == InitBTR /\ [][NextBTR]_vars

(************************** surfing, surfing_old ***************************)
\* Lengths are integers; the stage step is 2, so that the half step that
\* places a grid point at the center of its cell is 1.

\* len(torch.arange(lo, hi, step)), step > 0
ArangeLen(lo, hi, step) == IF hi <= lo THEN 0 ELSE (hi - lo + step - 1) \div step

\* x_stage[i] = (min_x + i * resolution_x) + 0.5 * resolution_x
StageX(i) == config.min_x + i * config.resolution_x + config.resolution_x \div 2

StageY(j) == config.min_y + j * config.resolution_y + config.resolution_y \div 2

StageW == ArangeLen(config.min_x, config.max_x, config.resolution_x)

StageH == ArangeLen(config.min_y, config.max_y, config.resolution_y)

\* torch.sqrt, to one decimal place (rounded down), in tenths
SqrtTenths(n) == CHOOSE k \in 0 .. 10 * n + 10 : k * k <= 100 * n /\ 100 * n < (k + 1) * (k + 1)

\* r2 = dx2 + dy2 of atom a at the grid point (x, y)
R2(a, x, y) == (a.x - x) * (a.x - x) + (a.y - y) * (a.y - y)

\* index_within_radius = r2 < radius2
Within(a, x, y) == R2(a, x, y) < a.radius * a.radius

\* xyz[..., 2] + sqrt(radius2 - r2), in tenths
Top(a, x, y) == 10 * a.z + SqrtTenths(a.radius * a.radius - R2(a, x, y))

\* the atoms whose sphere is over the grid point (x, y)
Over(x, y) == {n \in 1 .. Len(atoms) : Within(atoms[n], x, y)}

\* z_stage before the flip, at row j (y_stage[j]) and column i (x_stage[i]):
\* temp_max where any atom is within its radius, 0 elsewhere
SurfingCell(j, i) ==
  IF Over(StageX(i), StageY(j)) = {} THEN 0
  ELSE SetMax({Top(atoms[n], StageX(i), StageY(j)) : n \in Over(StageX(i), StageY(j))})

\* temp.max(dim=-3) raises on a dimension of size 0: no tensor comes back
SurfingRaises == Len(atoms) = 0

\* z_stage.flip([-2])
surfing ==
  Tensor(StageH, StageW, [c \in Idx(StageH, StageW) |-> SurfingCell(StageH - 1 - c[1], c[2])])

\* z_stage = full(0.0); z_stage[-j-1, i] = max(...) where any atom is within
\* its radius: row -j-1 is row H - 1 - j
surfing_old ==
  Tensor(StageH, StageW,
         [c \in Idx(StageH, StageW) |->
            LET j == StageH - 1 - c[1]
                i == c[2]
            IN  IF Over(StageX(i), StageY(j)) = {} THEN 0
                ELSE SetMax({Top(atoms[n], StageX(i), StageY(j)) :
                               n \in Over(StageX(i), StageY(j))})])

Atoms == [x : 0 .. MaxStage, y : 0 .. MaxStage, z : {-1, 0, 1}, radius : 1 .. MaxRadius]

AtomSets == UNION {[1 .. n -> Atoms] : n \in 0 .. MaxAtoms}

Configs == [min_x : {0}, max_x : 1 .. MaxStage, resolution_x : {2},
            min_y : {0}, max_y : 1 .. MaxStage, resolution_y : {2}]

InitSurf ==
  /\ pc = "start"
  /\ atoms \in AtomSets
  /\ config \in Configs
  /\ tip = Zeros(<<1, 1>>)
  /\ image = tip
  /\ r = tip
  /\ prev = tip
  /\ images = <<>>
  /\ nepoch = 0
  /\ epoch = 0
  /\ iframe = 0
  /\ loss = 0
  /\ loss_tmp = 0
  /\ loss_train = <<>>
  /\ nstep = 0
  /\ nproj = 0
  /\ visited = <<>>
  /\ post_tmp = 0
  /\ post_train = <<>>

\* r = surfing(xyz, radius, config)
Surfing ==
  /\ pc = "start"
  /\ ~SurfingRaises
  /\ r' = surfing
  /\ pc' = "surfed"
  /\ UNCHANGED <<image, tip, prev, btr, stage>>

\* surfing(xyz, radius, config) raises
SurfingFails ==
  /\ pc = "start"
  /\ SurfingRaises
  /\ pc' = "raised"
  /\ UNCHANGED <<image, tip, r, prev, btr, stage>>

\* prev = surfing_old(xyz, radius, config), on the same atoms and stage
SurfingOld ==
  /\ pc \in {"surfed", "raised"}
  /\ prev' = surfing_old
  /\ pc' = IF pc = "surfed" THEN "both" ELSE "old_only"
  /\ UNCHANGED <<image, tip, r, btr, stage>>

NextSurf == Surfing \/ SurfingFails \/ SurfingOld

SpecSurf == InitSurf /\ [][NextSurf]_vars

(******************************* claims ************************************)
NonPositive(t) == \A c \in Cells(t) : t.at[c] <= 0

AllZero(t) == \A c \in Cells(t) : t.at[c] = 0

NotAbove(a, b) == \A c \in Cells(a) : a.at[c] <= b.at[c]

OddTip(t) == t.nx % 2 = 1 /\ t.ny % 2 = 1

TipLarger == tip.nx > image.nx \/ tip.ny > image.ny

\* C1: the opening idilation(ierosion(image, T), T) by a tip with no positive
\* value is at most image at every cell, wrap-around cells included.
C1_OpeningBelowImage ==
  (pc = "opened" /\ NonPositive(tip)) => NotAbove(r, image)

C1_Witness ==
  /\ pc = "opened"
  /\ NonPositive(tip)
  /\ tip.ny = 2
  /\ ~AllZero(tip)
  /\ image.ny = 3
  /\ r # image

\* C2 as stated: a 1x1 tip holding 0, and any all-zero tip, leave the field
\* unchanged under idilation and under ierosion.
C2_TrivialTipIdentity ==
  (pc \in {"dilated", "eroded"} /\ AllZero(tip)) => r = image

\* C2 amended: the 1x1 tip holding 0 leaves the field unchanged; an all-zero tip
\* of any size only raises it under idilation and only lowers it under ierosion.
C2_ZeroTipExtensive ==
  (pc \in {"dilated", "eroded"} /\ AllZero(tip)) =>
    /\ (tip.nx = 1 /\ tip.ny = 1) => r = image
    /\ pc = "dilated" => NotAbove(image, r)
    /\ pc = "eroded" => NotAbove(r, image)

C2_Witness ==
  /\ pc = "dilated"
  /\ AllZero(tip)
  /\ tip.nx * tip.ny > 1
  /\ r # image

\* C3 as stated: ierosion(image, T) equals -idilation(-image, reflect(T)) for
\* tips of any dimensions.
C3_Duality == pc = "dual" => r = prev

\* C3 amended: the two are equal when both tip dimensions are odd; in general
\* ierosion(image, T) is -idilation(-image, reflect(T)) rolled by
\* (nx - 1 - 2 xc, ny - 1 - 2 yc), one cell along every even axis.
C3_DualityUpToRoll ==
  pc = "dual" =>
    /\ prev = roll(r, tip.nx - 1 - 2 * compute_xc_yc(tip)[1],
                      tip.ny - 1 - 2 * compute_xc_yc(tip)[2])
    /\ OddTip(tip) => r = prev

C3_Witness ==
  /\ pc = "dual"
  /\ tip.ny = 2
  /\ image.ny = 3
  /\ r # prev

\* C7: a tip larger than the image in either dimension ends idilation and
\* ierosion in an error, and no height field is returned.
C7_ShapeMismatchRejected == TipLarger => pc \in {"start", "rejected"}

\* C10: the opening of an opening by the same tip is that opening.
C10_OpeningIdempotent == pc = "reopened" => r = prev

C10_Witness ==
  /\ pc = "reopened"
  /\ tip.ny = 2
  /\ ~AllZero(tip)
  /\ image.ny = 3
  /\ r # image

\* The rounded centroid of t is its center cell.
Centred(t) == RoundedCentroid(t) = compute_xc_yc(t)

\* Neither centroid coordinate of t lies half way between two cells.
NoTie(t) ==
  LET total == ComDen(t)
  IN  2 * (ComNum(t, 1) % total) # total /\ 2 * (ComNum(t, 2) % total) # total

\* Every cell of t above its minimum lies in the window translate_tip_mean copies.
NothingCropped(t) ==
  LET id == RoundedCentroid(t)
      cc == compute_xc_yc(t)
      lowest == MinOf(t)
  IN  \A c \in Cells(t) :
        t.at[c] > lowest =>
          /\ c[1] - id[1] + cc[1] \in 0 .. t.nx - 1
          /\ c[2] - id[2] + cc[2] \in 0 .. t.ny - 1

\* C4 as stated: translate_tip_mean applied twice equals translate_tip_mean
\* applied once, for every tip.
C4_CenteringIdempotent == pc = "recentered" => r = prev

\* C4 amended: translate_tip_mean returns a tip whose rounded centroid is the
\* center cell unchanged; so the second application changes nothing when the
\* first cropped no cell above the minimum and no centroid coordinate was a tie.
C4_CenteringFixesCentred ==
  /\ (pc = "centered" /\ Centred(tip)) => r = tip
  /\ (pc = "recentered" /\ Centred(prev)) => r = prev
  /\ (pc = "recentered" /\ NothingCropped(tip) /\ NoTie(tip)) => r = prev

C4_Witness ==
  /\ pc = "recentered"
  /\ NothingCropped(tip)
  /\ NoTie(tip)
  /\ ~Centred(tip)
  /\ tip.nx > 1
  /\ tip.ny > 1

\* C5: outside the moment between optimizer.step() and the projection, no tip
\* cell is positive, whatever the optimizer wrote: at every loss re-evaluation
\* and in the returned tip; with nepoch = 0 the returned tip is all zero.
C5_TipNonPositive ==
  /\ pc # "project" => NonPositive(tip)
  /\ pc = "done" => NonPositive(r)
  /\ (pc = "done" /\ nepoch = 0) => AllZero(r)

C5_Witness ==
  /\ pc = "reeval"
  /\ ~NonPositive(prev)
  /\ ~AllZero(tip)
  /\ nproj = 2

\* C6: with tip_size = (1, 1) every loss the loop computes is exactly 0, so
\* every entry of the loss trace is 0.
C6_OneCellTipZeroLoss ==
  (tip.nx = 1 /\ tip.ny = 1) =>
    /\ loss = 0
    /\ loss_tmp = 0
    /\ \A e \in 1 .. Len(loss_train) : loss_train[e] = 0

C6_Witness ==
  /\ pc = "done"
  /\ tip.nx = 1
  /\ tip.ny = 1
  /\ tip.at[<<0, 0>>] < 0
  /\ Len(loss_train) = 2
  /\ Len(images) = 2
  /\ images[1] # images[2]

\* C9: one entry per completed epoch (nepoch entries at the return, none when
\* nepoch = 0); every entry is the sum of the losses seen right after each
\* frame's projection, frames taken in stack order; one optimizer step per
\* (epoch, frame), each projected before the next forward pass.
C9_LossTrace ==
  /\ Len(loss_train) = epoch
  /\ epoch <= nepoch
  /\ pc = "done" => (Len(loss_train) = nepoch /\ nstep = nepoch * Len(images))
  /\ loss_train = post_train
  /\ pc # "reeval" => loss_tmp = post_tmp
  /\ visited = [i \in 1 .. iframe |-> i - 1]
  /\ pc \in {"epoch", "done"} => nstep = epoch * Len(images)
  /\ pc \in {"frame", "step"} => nstep = epoch * Len(images) + iframe
  /\ pc \in {"project", "reeval"} => nstep = epoch * Len(images) + iframe + 1
  /\ nproj = IF pc = "project" THEN nstep - 1 ELSE nstep

C9_Witness ==
  /\ pc = "done"
  /\ nepoch = 2
  /\ Len(images) = 2
  /\ loss_train[1] # loss_train[2]
  /\ loss_train[2] > 0
  /\ nstep = 4

\* The height the renderer is to give row and column c of the stage grid, row 0
\* holding the largest y: 0 under no atom, else the highest sphere top.
Expected(c) ==
  LET x == StageX(c[2])
      y == StageY(StageH - 1 - c[1])
      over == {n \in 1 .. Len(atoms) : R2(atoms[n], x, y) < atoms[n].radius * atoms[n].radius}
  IN  IF over = {} THEN 0
      ELSE SetMax({10 * atoms[n].z + SqrtTenths(atoms[n].radius * atoms[n].radius - R2(atoms[n], x, y)) :
                     n \in over})

\* C8: on every atom set and stage, surfing and surfing_old both return, and
\* return the same height at every (row, col): 0 under no atom, else the highest
\* sphere top.
C8_RenderersAgree ==
  pc \in {"both", "old_only"} =>
    /\ pc = "both"
    /\ r = prev
    /\ \A c \in Cells(prev) : prev.at[c] = Expected(c)

\* On every atom set of at least one atom the two renderers return the same.
RenderersAgreeOnAtoms ==
  pc = "both" => (r = prev /\ \A c \in Cells(prev) : prev.at[c] = Expected(c))

=============================================================================
